---------------------------- MODULE Spec2Model ----------------------------
(***************************************************************************)
(* Model of the consent-test scripts: helpers.py (click_consent_button,    *)
(* monitor_ajax_requests and its two callbacks) and app.py                 *)
(* (visit_and_check_consent).                                              *)
(*                                                                         *)
(* Python strings are sequences of one-character strings.  Python's None   *)
(* is the one-element sequence <<"None">>, which no string equals.         *)
(* Three specifications share the variables:                               *)
(*   SpecClick  one call of click_consent_button on drawn rules/elements   *)
(*   SpecCorr   one correlator fed request and response events             *)
(*   SpecRun    runs of visit_and_check_consent, steps that may raise      *)
(***************************************************************************)
EXTENDS Integers, Sequences, FiniteSets, TLC

VARIABLES
    pc,          \* position of the modelled control flow
    rules,       \* CONSENT_BUTTONS: sequence of [selector, text]
    elements,    \* rendered elements in document order: [matches, text]
    clickRaises, \* whether button.click() raises
    outcome,     \* what click_consent_button did: [ret, clicks, examined]
    monitors,    \* one entry per monitor_ajax_requests call:
                 \*   [target_url, request_map, ajax_data]
    log,         \* every network event so far, in delivery order
    run,         \* number of the current run of visit_and_check_consent
    browser,     \* "none", "open" or "closed": the browser process of the run
    locals,      \* names bound in the frame of visit_and_check_consent
    result,      \* the result dict of the run
    file,        \* content of consent_test_results.json ({} = no file)
    trace,       \* the steps of the current run, in the order they happened
    raised,      \* the step whose failure was raised in the run ({} = none)
    returned     \* the documents returned to the caller, one per finished run

vars == <<pc, rules, elements, clickRaises, outcome, monitors, log, run,
          browser, locals, result, file, trace, raised, returned>>

clickVars == <<rules, elements, clickRaises, outcome>>
corrVars  == <<monitors, log>>
runVars   == <<run, browser, locals, result, file, trace, raised, returned>>

-----------------------------------------------------------------------------
(* Bounds *)
MaxRules   == 2
MaxElems   == 2
MaxEvents  == 4
MaxRunEvents == 2

-----------------------------------------------------------------------------
(* Python values *)

None == <<"None">>

\* x in y, for strings
Contains(sub, s) ==
    \E i \in 0..(Len(s) - Len(sub)) : SubSeq(s, i + 1, i + Len(sub)) = sub

LowerChar(c) ==
    CASE c = "O" -> "o"
      [] c = "K" -> "k"
      [] OTHER   -> c

\* str.lower()
Lower(s) == [i \in 1..Len(s) |-> LowerChar(s[i])]

RECURSIVE LStrip(_)
LStrip(s) == IF s # <<>> /\ Head(s) = " " THEN LStrip(Tail(s)) ELSE s

RECURSIVE RStrip(_)
RStrip(s) ==
    IF s # <<>> /\ s[Len(s)] = " " THEN RStrip(SubSeq(s, 1, Len(s) - 1)) ELSE s

\* str.strip()
Strip(s) == RStrip(LStrip(s))

\* truth value of an optional string: None and "" are false
Truthy(x) == x # None /\ x # <<>>

\* a dict is a set of <<key, value>> pairs
DictHas(d, k) == \E p \in d : p[1] = k

\* looks up some entry, whatever its key
DictGetAny(d, k, default) ==
    IF d # {} THEN (CHOOSE p \in d : TRUE)[2] ELSE default

DictGet(d, k, default) ==
    IF DictHas(d, k) THEN (CHOOSE p \in d : p[1] = k)[2] ELSE default

DictSet(d, k, v) == {p \in d : p[1] # k} \cup {<<k, v>>}

DictDel(d, k) == {p \in d : p[1] # k}

\* all sequences over S of length at most n
SeqUpTo(S, n) == UNION {[1..k -> S] : k \in 0..n}

-----------------------------------------------------------------------------
(* click_consent_button *)

Selectors == {"button", "#ok"}

RuleTexts == {<<"o", "k">>, <<"O", "K">>, <<"o", "k", " ">>}

ElemTexts == {<<"o", "k">>, <<" ", "O", "k", " ">>, <<"n", "o">>, <<>>}

RuleSet == [selector : Selectors, text : RuleTexts]

ElemSet == [matches : {{"button"}, {"button", "#ok"}}, text : ElemTexts]

\* page.locator(selector).all(): indices of the matching elements, document order
RECURSIVE Locate(_, _, _)
Locate(els, selector, i) ==
    IF i > Len(els) THEN <<>>
    ELSE IF selector \in els[i].matches
         THEN <<i>> \o Locate(els, selector, i + 1)
         ELSE Locate(els, selector, i + 1)

\* the text as rendered, blanks kept
ButtonTextRaw(el) == el.text

\* button.inner_text().strip()
ButtonText(el) == Strip(el.text)

\* expected_text.lower() in button_text.lower()
TextMatches(expected_text, button_text) ==
    Contains(Lower(expected_text), Lower(button_text))

\* the two nested loops; r is the rule index, buttons the rest of the rule's
\* buttons, examined the <<rule, element>> pairs whose text was read so far
RECURSIVE Scan(_, _, _, _, _, _)
Scan(rs, els, raises, r, buttons, examined) ==
    IF buttons = <<>>
    THEN IF r >= Len(rs)
         THEN [ret |-> "False", clicks |-> <<>>, examined |-> examined]
         ELSE Scan(rs, els, raises, r + 1,
                   Locate(els, rs[r + 1].selector, 1), examined)
    ELSE LET b    == Head(buttons)
             seen == Append(examined, <<r, b>>)
         IN  IF TextMatches(rs[r].text, ButtonText(els[b]))
             THEN [ret      |-> IF raises THEN "raise" ELSE "True",
                   clicks   |-> <<b>>,
                   examined |-> seen]
             ELSE Scan(rs, els, raises, r, Tail(buttons), seen)

click_consent_button(rs, els, raises) ==
    IF rs = <<>>
    THEN [ret |-> "False", clicks |-> <<>>, examined |-> <<>>]
    ELSE Scan(rs, els, raises, 1, Locate(els, rs[1].selector, 1), <<>>)

NoOutcome == [ret |-> "none", clicks |-> <<>>, examined |-> <<>>]

-----------------------------------------------------------------------------
(* monitor_ajax_requests *)

AjaxTypes == {"xhr", "fetch"}

\* the requests a page can issue
Requests ==
    { [url |-> <<"a", "c">>, resource_type |-> "xhr", method |-> "GET",
       headers |-> {<<"accept", "json">>}, post_data |-> None],
      [url |-> <<"a", "c">>, resource_type |-> "fetch", method |-> "POST",
       headers |-> {}, post_data |-> <<"p">>],
      [url |-> <<"a", "l">>, resource_type |-> "xhr", method |-> "POST",
       headers |-> {<<"accept", "json">>}, post_data |-> <<"q">>],
      [url |-> <<"a", "c">>, resource_type |-> "document", method |-> "GET",
       headers |-> {}, post_data |-> None] }

\* what the server can answer; readable = FALSE: response.text() raises
Answers ==
    { [status |-> 200, headers |-> {<<"type", "json">>}, readable |-> TRUE,
       body |-> <<"r">>],
      [status |-> 404, headers |-> {}, readable |-> TRUE, body |-> <<"e">>],
      [status |-> 200, headers |-> {}, readable |-> FALSE, body |-> None] }

NoAnswer == [status |-> 0, headers |-> {}, readable |-> FALSE, body |-> None]

\* target_url arguments of monitor_ajax_requests
Filters == {None, <<"c">>}

\* datetime.utcnow(): the clock advances with every event
Now == Len(log) + 1

\* the state a call of monitor_ajax_requests creates
NewMonitor(target_url) ==
    [target_url |-> target_url, request_map |-> {}, ajax_data |-> <<>>]

\* the filter both callbacks apply: resource type, then target_url
Monitored(m, resource_type, url) ==
    /\ resource_type \in AjaxTypes
    /\ ~(Truthy(m.target_url) /\ ~Contains(m.target_url, url))

\* never captures the POST body
RequestInfoNoBody(request, now) ==
    [url             |-> request.url,
     method          |-> request.method,
     request_headers |-> request.headers,
     request_body    |-> None,
     timestamp       |-> now]

RequestInfo(request, now) ==
    [url             |-> request.url,
     method          |-> request.method,
     request_headers |-> request.headers,
     request_body    |-> IF request.method = "POST" THEN request.post_data
                         ELSE None,
     timestamp       |-> now]

\* the record handle_response falls back to when the url is not pending
FallbackInfo(response, now) ==
    [url             |-> response.url,
     method          |-> response.request.method,
     request_headers |-> response.request.headers,
     request_body    |-> None,
     timestamp       |-> now]

ResponseInfo(request_info, response) ==
    [url              |-> request_info.url,
     method           |-> request_info.method,
     request_headers  |-> request_info.request_headers,
     request_body     |-> request_info.request_body,
     timestamp        |-> request_info.timestamp,
     status           |-> response.status,
     response_headers |-> response.headers,
     response_body    |-> response.body]

\* the callback registered for "request"
handle_request(m, request, now) ==
    IF Monitored(m, request.resource_type, request.url)
    THEN [m EXCEPT !.request_map =
              DictSet(@, request.url, RequestInfo(request, now))]
    ELSE m

\* appends a record without a body when response.text() raises
AppendResponsePartial(ajax_data, request_info, response) ==
    Append(ajax_data, ResponseInfo(request_info, response))

\* keeps one record per url
AppendResponseDedup(ajax_data, request_info, response) ==
    IF response.readable
       /\ \A k \in 1..Len(ajax_data) : ajax_data[k].url # request_info.url
    THEN Append(ajax_data, ResponseInfo(request_info, response))
    ELSE ajax_data

\* the try block of handle_response: append unless response.text() raises
AppendResponse(ajax_data, request_info, response) ==
    IF response.readable
    THEN Append(ajax_data, ResponseInfo(request_info, response))
    ELSE ajax_data

\* never removes the pending entry
ForgetRequestNever(request_map, url) == request_map

\* the last two lines of handle_response
ForgetRequest(request_map, url) ==
    IF DictHas(request_map, url) THEN DictDel(request_map, url)
    ELSE request_map

\* the callback registered for "response"
handle_response(m, response, now) ==
    IF Monitored(m, response.request.resource_type, response.url)
    THEN LET request_info ==
                 DictGet(m.request_map, response.url,
                         FallbackInfo(response, now))
         IN  [m EXCEPT
                !.ajax_data   = AppendResponse(@, request_info, response),
                !.request_map = ForgetRequest(@, response.url)]
    ELSE m

\* the response object of exchange id: the answer to the id's request
ResponseOf(request, answer) ==
    [request |-> request, url |-> request.url, status |-> answer.status,
     headers |-> answer.headers, readable |-> answer.readable,
     body |-> answer.body]

\* page.on dispatches an event to every registered callback
DispatchRequest(ms, request, now) ==
    [i \in 1..Len(ms) |-> handle_request(ms[i], request, now)]

DispatchResponse(ms, response, now) ==
    [i \in 1..Len(ms) |-> handle_response(ms[i], response, now)]

\* log entries: the request of an exchange (kind "request": delivered to the
\* callbacks; kind "early": issued before they were registered) and its answer
RequestEntry(kind, id, request) ==
    [kind |-> kind, id |-> id, request |-> request, answer |-> NoAnswer]

ResponseEntry(id, request, answer) ==
    [kind |-> "response", id |-> id, request |-> request, answer |-> answer]

\* exchanges whose request was issued and whose response is still to come
Open ==
    {i \in 1..Len(log) :
        /\ log[i].kind \in {"request", "early"}
        /\ \A j \in 1..Len(log) :
              ~(log[j].kind = "response" /\ log[j].id = log[i].id)}

NextId == Cardinality({i \in 1..Len(log) : log[i].kind # "response"}) + 1

-----------------------------------------------------------------------------
(* visit_and_check_consent: configuration and helpers *)

TARGET_URL == <<"t">>

JSACONFIG_URL == <<"c">>

JSALOAD_URL == <<"l">>

TARGET_SCRIPT_PATTERN == <<"j">>

CONSENT_BUTTONS == <<[selector |-> "button", text |-> <<"O", "K">>]>>

\* the calls of visit_and_check_consent: two, one after the other
Runs == {1, 2}

\* the pages the consent probe can meet
RunElements ==
    { <<>>,
      <<[matches |-> {"button"}, text |-> <<" ", "O", "k", " ">>]>>,
      <<[matches |-> {"button"}, text |-> <<"n", "o">>]>> }

\* the src attributes of the script elements the script probe can meet
ScriptLists == { <<>>, <<<<"x">>, <<"/", "j">>>> }

\* the network traffic of the target page: one call to each monitored url,
\* answered with a body that can or cannot be read
RunRequests == {r \in Requests : r.resource_type = "xhr"}

RunAnswers == {a \in Answers : a.status = 200}

\* the result dict as first built; page_info and error are absent ({})
NewResult(timestamp) ==
    [metadata  |-> [target_url |-> TARGET_URL, timestamp |-> timestamp],
     requests  |-> [JSALOAD |-> <<>>, JSACONFIG |-> <<>>],
     page_info |-> {},
     error     |-> {}]

\* check_script_load: some src contains the pattern
check_script_load(srcs) ==
    \E i \in 1..Len(srcs) : Contains(TARGET_SCRIPT_PATTERN, srcs[i])

\* the finally block writes the file first and closes the browser after it
SuccessorWriteFirst(p) ==
    CASE p = "launch"         -> "clear"
      [] p = "clear"          -> "monitor_config"
      [] p = "monitor_config" -> "monitor_load"
      [] p = "monitor_load"   -> "goto"
      [] p = "goto"           -> "consent"
      [] p = "consent"        -> "script"
      [] p = "script"         -> "cookie"
      [] p = "cookie"         -> "assemble"
      [] p = "assemble"       -> "write"
      [] p = "except"         -> "write"
      [] p = "write"          -> "close"
      [] p = "close"          -> "return"
      [] p = "return"         -> "done"

\* the statement that follows statement p when p does not raise
Successor(p) ==
    CASE p = "launch"         -> "clear"
      [] p = "clear"          -> "monitor_config"
      [] p = "monitor_config" -> "monitor_load"
      [] p = "monitor_load"   -> "goto"
      [] p = "goto"           -> "consent"
      [] p = "consent"        -> "script"
      [] p = "script"         -> "cookie"
      [] p = "cookie"         -> "assemble"
      [] p = "assemble"       -> "close"
      [] p = "except"         -> "close"
      [] p = "close"          -> "write"
      [] p = "write"          -> "return"
      [] p = "return"         -> "done"

-----------------------------------------------------------------------------
(* States in which nothing of a part has happened *)

IdleClick ==
    /\ rules = <<>> /\ elements = <<>> /\ clickRaises = FALSE
    /\ outcome = NoOutcome

IdleCorr == monitors = <<>> /\ log = <<>>

IdleRun ==
    /\ run = 0 /\ browser = "none" /\ locals = {} /\ result = NewResult(0)
    /\ file = {} /\ trace = <<>> /\ raised = {} /\ returned = <<>>

-----------------------------------------------------------------------------
(* SpecClick: one call of click_consent_button *)

InitClick ==
    /\ pc = "click"
    /\ clickRaises \in BOOLEAN
    /\ rules \in SeqUpTo(RuleSet, MaxRules)
    /\ elements \in SeqUpTo(ElemSet, MaxElems)
    /\ outcome = NoOutcome
    /\ IdleCorr /\ IdleRun

ClickConsent ==
    /\ pc = "click"
    /\ outcome' = click_consent_button(rules, elements, clickRaises)
    /\ pc' = "clicked"
    /\ UNCHANGED <<rules, elements, clickRaises, corrVars, runVars>>

NextClick == ClickConsent

SpecClick == InitClick /\ [][NextClick]_vars

-----------------------------------------------------------------------------
(* Network events, delivered by the browser to the registered callbacks *)

\* the callbacks run only while a page with registered callbacks is alive
Delivering ==
    \/ pc = "listening" /\ Len(log) < MaxEvents
    \/ /\ pc \in {"goto", "consent", "script", "cookie", "assemble"}
       /\ monitors # <<>>
       /\ Len(log) < MaxRunEvents

\* the page issues requests before any callback is registered
NotYetListening ==
    \/ pc = "page" /\ Len(log) < MaxEvents
    \/ pc = "monitor_config" /\ Len(log) < MaxRunEvents

EarlyRequest(request) ==
    /\ NotYetListening
    /\ log' = Append(log, RequestEntry("early", NextId, request))
    /\ UNCHANGED <<pc, monitors, clickVars, runVars>>

OnRequest(request) ==
    /\ Delivering
    /\ monitors' = DispatchRequest(monitors, request, Now)
    /\ log' = Append(log, RequestEntry("request", NextId, request))
    /\ UNCHANGED <<pc, clickVars, runVars>>

OnResponse(i, answer) ==
    /\ Delivering
    /\ i \in Open
    /\ monitors' = DispatchResponse(monitors,
                                    ResponseOf(log[i].request, answer), Now)
    /\ log' = Append(log, ResponseEntry(log[i].id, log[i].request, answer))
    /\ UNCHANGED <<pc, clickVars, runVars>>

-----------------------------------------------------------------------------
(* SpecCorr: one call of monitor_ajax_requests on a live page *)

InitCorr ==
    /\ pc = "page"
    /\ IdleClick /\ IdleCorr /\ IdleRun

\* monitor_ajax_requests(page, log_file, target_url)
Monitor(target_url) ==
    /\ pc = "page"
    /\ monitors' = Append(monitors, NewMonitor(target_url))
    /\ pc' = "listening"
    /\ UNCHANGED <<log, clickVars, runVars>>

NextCorr ==
    \/ \E f \in Filters : Monitor(f)
    \/ \E r \in Requests : EarlyRequest(r)
    \/ \E r \in Requests : OnRequest(r)
    \/ \E i \in 1..MaxEvents, a \in Answers : OnResponse(i, a)

SpecCorr == InitCorr /\ [][NextCorr]_vars

-----------------------------------------------------------------------------
(* SpecRun: runs of visit_and_check_consent, one after the other *)

InitRun ==
    /\ pc = "idle"
    /\ IdleClick /\ IdleCorr /\ IdleRun

\* a step of the try block raised: control goes to the except clause
Raise(step) ==
    /\ raised' = raised \cup {step}
    /\ pc' = "except"

\* lines 25-31: logging set up, the result dict built
StartRun ==
    /\ pc \in {"idle", "done", "escaped"}
    /\ run + 1 \in Runs
    /\ run' = run + 1
    /\ result' = NewResult(run + 1)
    /\ browser' = "none"
    /\ locals' = {}
    /\ monitors' = <<>>
    /\ log' = <<>>
    /\ trace' = <<>>
    /\ raised' = {}
    /\ rules' = CONSENT_BUTTONS
    /\ elements' = <<>>
    /\ clickRaises' = FALSE
    /\ outcome' = NoOutcome
    /\ pc' = "launch"
    /\ UNCHANGED <<file, returned>>

\* browser, context, page = launch_browser(); failAt names the call that
\* raises, "none" if none does
LaunchBrowser(failAt) ==
    /\ pc = "launch"
    /\ browser' = IF failAt = "launch" THEN "none" ELSE "open"
    /\ trace' = Append(trace, "launch")
    /\ IF failAt = "none"
       THEN /\ locals' = DictSet(DictSet(DictSet(locals, "browser", 0),
                                         "context", 0), "page", 0)
            /\ pc' = Successor(pc)
            /\ UNCHANGED raised
       ELSE Raise(failAt) /\ UNCHANGED locals
    /\ UNCHANGED <<clickVars, corrVars, run, result, file, returned>>

\* clear_cookies_and_storage(context, page, TARGET_URL, log_file)
ClearCookiesAndStorage(failAt) ==
    /\ pc = "clear"
    /\ trace' = trace \o
                  (CASE failAt = "clear_cookies" -> <<"clear_cookies">>
                     [] failAt = "clear.goto" -> <<"clear_cookies", "clear.goto">>
                     [] OTHER -> <<"clear_cookies", "clear.goto", "evaluate">>)
    /\ IF failAt = "none"
       THEN pc' = Successor(pc) /\ UNCHANGED raised
       ELSE Raise(failAt)
    /\ UNCHANGED <<clickVars, corrVars, run, browser, locals, result, file,
                   returned>>

\* name = monitor_ajax_requests(page, log_file, target_url)
MonitorAjax(at, name, target_url) ==
    /\ pc = at
    /\ monitors' = Append(monitors, NewMonitor(target_url))
    /\ locals' = DictSet(locals, name, Len(monitors) + 1)
    /\ trace' = Append(trace, "monitor")
    /\ pc' = Successor(pc)
    /\ UNCHANGED <<clickVars, log, run, browser, result, file, raised,
                   returned>>

\* page.goto(TARGET_URL); page.wait_for_timeout(5000)
Goto(fails) ==
    /\ pc = "goto"
    /\ trace' = Append(trace, "goto")
    /\ IF fails THEN Raise("goto") ELSE pc' = Successor(pc) /\ UNCHANGED raised
    /\ UNCHANGED <<clickVars, corrVars, run, browser, locals, result, file,
                   returned>>

\* consent_clicked = click_consent_button(page, log_file)
ProbeConsent(els, raises) ==
    /\ pc = "consent"
    /\ elements' = els
    /\ clickRaises' = raises
    /\ outcome' = click_consent_button(rules, els, raises)
    /\ trace' = Append(trace, "consent")
    /\ IF outcome'.ret = "raise"
       THEN Raise("click") /\ UNCHANGED locals
       ELSE /\ locals' = DictSet(locals, "consent_clicked", outcome'.ret = "True")
            /\ pc' = Successor(pc)
            /\ UNCHANGED raised
    /\ UNCHANGED <<rules, corrVars, run, browser, result, file, returned>>

\* script_loaded = check_script_load(page, log_file); if script_loaded: ...
ProbeScript(srcs, fails) ==
    /\ pc = "script"
    /\ trace' = Append(trace, "script")
    /\ IF fails
       THEN Raise("script") /\ UNCHANGED locals
       ELSE /\ locals' = DictSet(locals, "script_loaded", check_script_load(srcs))
            /\ pc' = IF check_script_load(srcs) THEN Successor(pc)
                     ELSE Successor(Successor(pc))
            /\ UNCHANGED raised
    /\ UNCHANGED <<clickVars, corrVars, run, browser, result, file, returned>>

\* check_consent_cookie(context, log_file); the value it returns is dropped
ProbeCookie(fails) ==
    /\ pc = "cookie"
    /\ trace' = Append(trace, "cookie")
    /\ IF fails THEN Raise("cookies") ELSE pc' = Successor(pc) /\ UNCHANGED raised
    /\ UNCHANGED <<clickVars, corrVars, run, browser, locals, result, file,
                   returned>>

\* lines 50-52: the collected lists and page_info go into the result
Assemble ==
    /\ pc = "assemble"
    /\ result' =
         [result EXCEPT
            !.requests.JSALOAD = @ \o
                monitors[DictGet(locals, "jsa_load_ajax_response", 0)].ajax_data,
            !.requests.JSACONFIG = @ \o
                monitors[DictGet(locals, "jsa_config_ajax_response", 0)].ajax_data,
            !.page_info =
                {[consent_clicked |-> DictGet(locals, "consent_clicked", FALSE),
                  script_loaded   |-> DictGet(locals, "script_loaded", FALSE)]}]
    /\ trace' = Append(trace, "assemble")
    /\ pc' = Successor(pc)
    /\ UNCHANGED <<clickVars, corrVars, run, browser, locals, file, raised,
                   returned>>

\* except Exception as e: result["error"] = str(e)
Except ==
    /\ pc = "except"
    /\ result' = [result EXCEPT !.error = raised]
    /\ trace' = Append(trace, "except")
    /\ pc' = Successor(pc)
    /\ UNCHANGED <<clickVars, corrVars, run, browser, locals, file, raised,
                   returned>>

\* finally: if 'browser' in locals(): browser.close()
CloseBrowser(fails) ==
    /\ pc = "close"
    /\ IF DictHas(locals, "browser")
       THEN /\ trace' = Append(trace, "close")
            /\ IF fails
               THEN /\ raised' = raised \cup {"close"}
                    /\ pc' = "escaped"
                    /\ UNCHANGED browser
               ELSE /\ browser' = "closed"
                    /\ pc' = Successor(pc)
                    /\ UNCHANGED raised
       ELSE /\ pc' = Successor(pc)
            /\ UNCHANGED <<trace, browser, raised>>
    /\ UNCHANGED <<clickVars, corrVars, run, locals, result, file, returned>>

\* opens the file to append: earlier documents stay in it
WriteFileAppend ==
    /\ pc = "write"
    /\ file' = file \cup {result}
    /\ trace' = Append(trace, "write")
    /\ pc' = Successor(pc)
    /\ UNCHANGED <<clickVars, corrVars, run, browser, locals, result, raised,
                   returned>>

\* with open("consent_test_results.json", "w") ...: json.dump(result, ...)
WriteFile ==
    /\ pc = "write"
    /\ file' = {result}
    /\ trace' = Append(trace, "write")
    /\ pc' = Successor(pc)
    /\ UNCHANGED <<clickVars, corrVars, run, browser, locals, result, raised,
                   returned>>

\* return result
Return ==
    /\ pc = "return"
    /\ returned' = Append(returned, result)
    /\ pc' = Successor(pc)
    /\ UNCHANGED <<clickVars, corrVars, run, browser, locals, result, file,
                   trace, raised>>

NextRun ==
    \/ StartRun
    \/ \E f \in {"none", "launch", "new_context", "new_page"} : LaunchBrowser(f)
    \/ \E f \in {"none", "clear_cookies", "clear.goto", "evaluate"} :
          ClearCookiesAndStorage(f)
    \/ MonitorAjax("monitor_config", "jsa_config_ajax_response", JSACONFIG_URL)
    \/ MonitorAjax("monitor_load", "jsa_load_ajax_response", JSALOAD_URL)
    \/ \E f \in BOOLEAN : Goto(f)
    \/ \E els \in RunElements, f \in BOOLEAN : ProbeConsent(els, f)
    \/ \E srcs \in ScriptLists, f \in BOOLEAN : ProbeScript(srcs, f)
    \/ \E f \in BOOLEAN : ProbeCookie(f)
    \/ Assemble
    \/ Except
    \/ \E f \in BOOLEAN : CloseBrowser(f)
    \/ WriteFile
    \/ Return
    \/ \E r \in RunRequests : EarlyRequest(r)
    \/ \E r \in RunRequests : OnRequest(r)
    \/ \E i \in 1..MaxRunEvents, a \in RunAnswers : OnResponse(i, a)

SpecRun == InitRun /\ [][NextRun]_vars

-----------------------------------------------------------------------------
(* Claims about the correlator, stated over the event log *)

\* what the claims call a matching xhr/fetch event of a correlator
IsMatching(target_url, request) ==
    /\ request.resource_type = "xhr" \/ request.resource_type = "fetch"
    /\ target_url \in {None, <<>>} \/ Contains(target_url, request.url)

\* the request data a record is expected to carry for the request logged at i
Captured(i) ==
    [url             |-> log[i].request.url,
     method          |-> log[i].request.method,
     request_headers |-> log[i].request.headers,
     request_body    |-> IF log[i].request.method = "POST"
                         THEN log[i].request.post_data ELSE None,
     timestamp       |-> i]

\* positions of the delivered events of a correlator that concern url
EventsFor(target_url, url, upTo) ==
    {i \in 1..upTo :
        /\ log[i].kind \in {"request", "response"}
        /\ log[i].request.url = url
        /\ IsMatching(target_url, log[i].request)}

Last(S) == CHOOSE i \in S : \A j \in S : j <= i

\* the responses of the log a correlator is expected to have recorded
IsRecorded(target_url, e) ==
    e.kind = "response" /\ e.answer.readable /\ IsMatching(target_url, e.request)

\* the step delivers the response e to the callbacks
Delivers(e) == log' = Append(log, e) /\ e.kind = "response"

\* C1: a matching request to u followed by a readable response to u appends
\* exactly one record, which carries the url, method, headers and body captured
\* from that request and the status, headers and body of the response.
C1_RequestThenResponse ==
    [][\A n \in 1..Len(monitors), a \in Answers, i \in 1..Len(log) :
          LET m   == monitors[n]
              e   == ResponseEntry(log[i].id, log[i].request, a)
              evs == EventsFor(m.target_url, log[i].request.url, Len(log))
          IN  ( /\ Delivers(e)
                /\ a.readable
                /\ IsMatching(m.target_url, log[i].request)
                /\ evs # {}
                /\ log[Last(evs)].kind = "request" )
              => monitors'[n].ajax_data =
                   Append(m.ajax_data,
                          [url              |-> Captured(Last(evs)).url,
                           method           |-> Captured(Last(evs)).method,
                           request_headers  |-> Captured(Last(evs)).request_headers,
                           request_body     |-> Captured(Last(evs)).request_body,
                           timestamp        |-> Captured(Last(evs)).timestamp,
                           status           |-> a.status,
                           response_headers |-> a.headers,
                           response_body    |-> a.body])]_vars

\* a POST request was answered readably and its record holds the POST body
C1_Witness ==
    /\ pc = "listening"
    /\ Len(log) >= 2
    /\ log[Len(log)].kind = "response" /\ log[Len(log)].answer.readable
    /\ log[Len(log) - 1].kind = "request"
    /\ log[Len(log) - 1].id = log[Len(log)].id
    /\ log[Len(log)].request.method = "POST"
    /\ Len(monitors[1].ajax_data) = 1
    /\ monitors[1].ajax_data[1].request_body = log[Len(log)].request.post_data

\* C2: the pending-request map holds at most one entry per url; a url has an
\* entry exactly when the last matching event for it was a request, and the
\* entry is what that request captured; after a matching response to a url
\* (readable or not) the map has no entry for it.
C2_PendingMap ==
    \A n \in 1..Len(monitors) :
        LET m == monitors[n]
        IN  /\ \A p, q \in m.request_map : p[1] = q[1] => p = q
            /\ \A p \in m.request_map :
                  LET evs == EventsFor(m.target_url, p[1], Len(log))
                  IN  /\ evs # {}
                      /\ log[Last(evs)].kind = "request"
                      /\ p[2] = Captured(Last(evs))
            /\ \A i \in 1..Len(log) :
                  LET evs == EventsFor(m.target_url, log[i].request.url, Len(log))
                  IN  /\ (evs # {} /\ log[Last(evs)].kind = "response")
                            => ~DictHas(m.request_map, log[i].request.url)
                      /\ (evs # {} /\ log[Last(evs)].kind = "request")
                            => DictHas(m.request_map, log[i].request.url)

\* a second request to the same url replaced the pending entry, and an
\* unreadable response then removed it
C2_Witness ==
    /\ pc = "listening"
    /\ Len(log) = 3
    /\ log[1].kind = "request" /\ log[2].kind = "request"
    /\ log[1].request.url = log[2].request.url
    /\ log[1].request # log[2].request
    /\ IsMatching(monitors[1].target_url, log[1].request)
    /\ IsMatching(monitors[1].target_url, log[2].request)
    /\ log[3].kind = "response" /\ ~log[3].answer.readable
    /\ log[3].request.url = log[1].request.url
    /\ monitors[1].request_map = {}

\* C8: a matching response whose body cannot be read leaves the collected list
\* unchanged and the callbacks in place; after such a response a readable
\* matching response still appends one record and a matching request is still
\* entered in the pending map.
C8_UnreadableDropped ==
    [][\A n \in 1..Len(monitors), e \in {log'[k] : k \in {Len(log')} \ {0}} :
          LET m == monitors[n]
              dropped == \E j \in 1..Len(log) :
                            /\ log[j].kind = "response"
                            /\ ~log[j].answer.readable
                            /\ IsMatching(m.target_url, log[j].request)
          IN  /\ ( /\ Delivers(e) /\ ~e.answer.readable
                   /\ IsMatching(m.target_url, e.request) )
                 => /\ monitors'[n].ajax_data = m.ajax_data
                    /\ Len(monitors') = Len(monitors)
                    /\ pc' = pc
              /\ ( /\ dropped /\ Delivers(e) /\ e.answer.readable
                   /\ IsMatching(m.target_url, e.request) )
                 => /\ Len(monitors'[n].ajax_data) = Len(m.ajax_data) + 1
                    /\ monitors'[n].ajax_data[Len(m.ajax_data) + 1].response_body
                         = e.answer.body
              /\ ( /\ dropped /\ log' = Append(log, e) /\ e.kind = "request"
                   /\ IsMatching(m.target_url, e.request) )
                 => DictHas(monitors'[n].request_map, e.request.url)]_vars

\* an unreadable response was dropped and a later response was recorded
C8_Witness ==
    /\ pc = "listening"
    /\ \E j \in 1..Len(log) :
          /\ log[j].kind = "response" /\ ~log[j].answer.readable
          /\ IsMatching(monitors[1].target_url, log[j].request)
          /\ \E k \in (j + 1)..Len(log) :
                /\ log[k].kind = "response" /\ log[k].answer.readable
                /\ IsMatching(monitors[1].target_url, log[k].request)
    /\ Len(monitors[1].ajax_data) = 1

\* the log entries a correlator is expected to have recorded, in arrival order
Recorded(target_url) ==
    SelectSeq(log, LAMBDA e : IsRecorded(target_url, e))

IsPrefix(s, t) == Len(s) <= Len(t) /\ SubSeq(t, 1, Len(s)) = s

\* C9: the collected list holds exactly one record per readable matching
\* response, in arrival order (two responses to one url give two records, a
\* request without a response gives none), and it only ever grows at its end.
C9_OneRecordPerResponse ==
    /\ [](\A n \in 1..Len(monitors) :
            LET m   == monitors[n]
                arr == Recorded(m.target_url)
            IN  /\ Len(m.ajax_data) = Len(arr)
                /\ \A k \in 1..Len(arr) :
                      /\ m.ajax_data[k].url = arr[k].request.url
                      /\ m.ajax_data[k].status = arr[k].answer.status
                      /\ m.ajax_data[k].response_headers = arr[k].answer.headers
                      /\ m.ajax_data[k].response_body = arr[k].answer.body)
    /\ [][\A n \in 1..Len(monitors) :
            Len(monitors') = Len(monitors)
              => IsPrefix(monitors[n].ajax_data, monitors'[n].ajax_data)]_vars

\* two requests to one url were each answered readably: two records for the
\* same url, in the order the responses arrived
C9_Witness ==
    /\ pc = "listening"
    /\ Len(log) = 4
    /\ log[1].kind = "request" /\ log[2].kind = "response"
    /\ log[3].kind = "request" /\ log[4].kind = "response"
    /\ Len(monitors[1].ajax_data) = 2
    /\ monitors[1].ajax_data[1].url = monitors[1].ajax_data[2].url
    /\ monitors[1].ajax_data[1].status = log[2].answer.status
    /\ monitors[1].ajax_data[2].status = log[4].answer.status
    /\ log[2].answer.status # log[4].answer.status

\* the exchanges of the log go to pairwise distinct urls and the request of
\* each was delivered to the callbacks
DistinctExchanges ==
    \A i, j \in 1..Len(log) :
        /\ log[i].kind # "early"
        /\ (log[i].request.url = log[j].request.url) => (log[i].id = log[j].id)

\* C10: when the exchanges go to pairwise distinct urls and each request is
\* delivered before its own response, every record pairs the response with
\* the method, headers and body of the request of the same exchange, and the
\* pending map is empty once every response was handled.
C10_InterleavedExchanges ==
    DistinctExchanges =>
        \A n \in 1..Len(monitors) :
            LET m   == monitors[n]
                arr == Recorded(m.target_url)
            IN  /\ \A k \in 1..Len(m.ajax_data) :
                      /\ k <= Len(arr)
                      /\ m.ajax_data[k].url = arr[k].request.url
                      /\ m.ajax_data[k].method = arr[k].request.method
                      /\ m.ajax_data[k].request_headers = arr[k].request.headers
                      /\ m.ajax_data[k].request_body =
                           (IF arr[k].request.method = "POST"
                            THEN arr[k].request.post_data ELSE None)
                      /\ m.ajax_data[k].status = arr[k].answer.status
                      /\ m.ajax_data[k].response_body = arr[k].answer.body
                /\ Open = {} => m.request_map = {}

\* two exchanges to different urls overlapped and both were recorded, the
\* responses arriving in the opposite order of the requests
C10_Witness ==
    /\ pc = "listening"
    /\ DistinctExchanges
    /\ Len(log) = 4
    /\ log[1].kind = "request" /\ log[2].kind = "request"
    /\ log[3].kind = "response" /\ log[4].kind = "response"
    /\ log[3].id = log[2].id /\ log[4].id = log[1].id
    /\ Len(monitors[1].ajax_data) = 2
    /\ monitors[1].request_map = {}

-----------------------------------------------------------------------------
(* Claims about click_consent_button *)

SameLetter(c, d) == c = d \/ {c, d} = {"o", "O"} \/ {c, d} = {"k", "K"}

\* s contains sub, letter case ignored
ContainsNoCase(sub, s) ==
    \E i \in 0..(Len(s) - Len(sub)) :
        \A k \in 1..Len(sub) : SameLetter(sub[k], s[i + k])

\* s without its leading and trailing blanks
Trimmed(s) ==
    LET inked == {i \in 1..Len(s) : s[i] # " "}
    IN  IF inked = {} THEN <<>>
        ELSE SubSeq(s, CHOOSE i \in inked : \A j \in inked : i <= j,
                       CHOOSE i \in inked : \A j \in inked : j <= i)

\* <<rule, element>> pairs: the element is matched by the rule's selector and
\* its text (as rendered, or trimmed) contains the rule's expected text
MatchingPairs(trim) ==
    {p \in (1..Len(rules)) \X (1..Len(elements)) :
        /\ rules[p[1]].selector \in elements[p[2]].matches
        /\ ContainsNoCase(rules[p[1]].text,
                          IF trim THEN Trimmed(elements[p[2]].text)
                          ELSE elements[p[2]].text)}

\* rule order, then document order
Precedes(p, q) == p[1] < q[1] \/ (p[1] = q[1] /\ p[2] <= q[2])

FirstPair(S) == CHOOSE p \in S : \A q \in S : Precedes(p, q)

\* C6 as claimed: if some element matched by a rule's selector has text that
\* contains the rule's text (case ignored), the call returns True after exactly
\* one click on the first such element and examines nothing after it; otherwise
\* it clicks nothing and returns False.
C6_AsClaimed ==
    pc = "clicked" =>
        IF MatchingPairs(FALSE) # {}
        THEN /\ outcome.ret = "True"
             /\ outcome.clicks = <<FirstPair(MatchingPairs(FALSE))[2]>>
             /\ outcome.examined[Len(outcome.examined)]
                  = FirstPair(MatchingPairs(FALSE))
        ELSE outcome.ret = "False" /\ outcome.clicks = <<>>

\* C6 (amended): the texts compared are the elements' trimmed texts, and the
\* call returns True unless the one click raises, in which case the exception
\* propagates; everything else as claimed.
C6_FirstMatchClicked ==
    pc = "clicked" =>
        IF MatchingPairs(TRUE) # {}
        THEN LET first == FirstPair(MatchingPairs(TRUE))
             IN  /\ outcome.ret = (IF clickRaises THEN "raise" ELSE "True")
                 /\ outcome.clicks = <<first[2]>>
                 /\ outcome.examined # <<>>
                 /\ outcome.examined[Len(outcome.examined)] = first
                 /\ \A k \in 1..Len(outcome.examined) :
                       Precedes(outcome.examined[k], first)
        ELSE outcome.ret = "False" /\ outcome.clicks = <<>>

\* the first rule matched nothing, the second rule matched the second element
\* although the first element is matched by its selector too; the clicked
\* element's text differs from the rule's text in case and surrounding blanks
C6_Witness ==
    /\ pc = "clicked"
    /\ Len(rules) = 2 /\ Len(elements) = 2
    /\ outcome.ret = "True"
    /\ outcome.clicks = <<2>>
    /\ outcome.examined[Len(outcome.examined)] = <<2, 2>>
    /\ rules[2].selector \in elements[1].matches
    /\ elements[2].text = <<" ", "O", "k", " ">>
    /\ rules[2].text = <<"o", "k">>

-----------------------------------------------------------------------------
(* Claims about visit_and_check_consent *)

\* the run is over: it returned, or an exception left the function
Finished == pc \in {"done", "escaped"}

\* C3: whichever step fails, a browser that was created is closed before the
\* run ends, and no close is attempted when none was created.
C3_BrowserClosed ==
    Finished =>
        /\ browser # "none" => (\E i \in 1..Len(trace) : trace[i] = "close")
        /\ browser = "none" => (\A i \in 1..Len(trace) : trace[i] # "close")

\* C4: every run ends with the result written to the file and returned; no
\* failure, one while closing the browser included, escapes the function or
\* keeps the file from being written.
C4_ResultAlwaysWritten ==
    /\ pc # "escaped"
    /\ pc = "done" =>
          /\ file = {result}
          /\ returned # <<>>
          /\ returned[Len(returned)] = result

\* C5: a run in which the target url cannot be reached (the first navigation
\* raises, nothing else does) ends with the document of that run alone: error
\* set, both lists empty, nothing taken over from an earlier run; the document
\* is returned and is the whole content of the result file.  This holds in
\* the first run and in the second, and the documents already returned stay.
C5_UnreachableTwice ==
    /\ []((Finished /\ raised = {"clear.goto"}) =>
            /\ pc = "done"
            /\ result = [NewResult(run) EXCEPT !.error = {"clear.goto"}]
            /\ result.error # {}
            /\ result.requests.JSALOAD = <<>>
            /\ result.requests.JSACONFIG = <<>>
            /\ returned # <<>> /\ returned[Len(returned)] = result
            /\ file = {result})
    /\ [][IsPrefix(returned, returned')]_vars

\* both runs met the unreachable url: two documents, each with error set and
\* empty lists, the file holding the second
C5_Witness ==
    /\ pc = "done" /\ run = 2
    /\ raised = {"clear.goto"}
    /\ Len(returned) = 2
    /\ returned[1] = [NewResult(1) EXCEPT !.error = {"clear.goto"}]
    /\ returned[2] = [NewResult(2) EXCEPT !.error = {"clear.goto"}]
    /\ file = {returned[2]}

\* the order the claim gives to the steps it names
ClaimedRank(step) ==
    CASE step = "launch"     -> 1
      [] step = "monitor"    -> 2
      [] step = "clear.goto" -> 3
      [] step = "goto"       -> 3
      [] step = "consent"    -> 4
      [] step = "script"     -> 5
      [] step = "cookie"     -> 5
      [] step = "write"      -> 6
      [] step = "close"      -> 7
      [] OTHER               -> 0

CodeRank(step) ==
    CASE step = "launch"        -> 1
      [] step = "clear_cookies" -> 2
      [] step = "clear.goto"    -> 3
      [] step = "evaluate"      -> 4
      [] step = "monitor"       -> 5
      [] step = "goto"          -> 6
      [] step = "consent"       -> 7
      [] step = "script"        -> 8
      [] step = "cookie"        -> 9
      [] step = "assemble"      -> 10
      [] step = "except"        -> 10
      [] step = "close"         -> 11
      [] step = "write"         -> 12

=============================================================================
